---- MODULE Spec2Model ----
(***************************************************************************)
(* Model of src/src/main.rs: a Longan Nano program that reads a DHT        *)
(* humidity/temperature sensor from the TIMER1 interrupt handler and shows *)
(* the last reading from the main loop.                                    *)
(*                                                                         *)
(* Two contexts share one hart: the main program (pcMain) and the TIMER1   *)
(* interrupt handler (pcIrq).  The handler preempts the main program       *)
(* whenever the timer's update flag is pending and mstatus.MIE is set, and *)
(* runs to completion; riscv::interrupt::free clears MIE around its        *)
(* closure.  All f32 values the program computes are whole numbers of      *)
(* magnitude <= 1001, exactly representable, and are modelled as integers  *)
(* (-0.0 is modelled as 0).                                                *)
(***************************************************************************)
EXTENDS Integers, Sequences, FiniteSets, TLC

VARIABLES
    pcMain,         \* position of the main program
    mie,            \* mstatus.MIE, the global interrupt enable
    snapT, snapH,   \* what the main loop read from DATA in this iteration
    TIMER,          \* static TIMER: "None" / "Some"
    DATA,           \* static DATA: [some, v], v = <<temperature, humidity>>
    DELAY,          \* static DELAY: "None" / "Some"
    IN_PIN,         \* static IN_PIN: "None" / "Some"
    OUT_PIN,        \* static OUT_PIN: "None" / "Some"
    TIMER_COUNTER,  \* static mut TIMER_COUNTER
    pending,        \* TIMER1 update-interrupt flag
    pa3mode,        \* mode of pin PA3: "floating" / "output" / "input"
    pa3level,       \* level driven on PA3 while it is an output
    pcIrq,          \* position of the TIMER1 handler
    do_stuff,       \* TIMER1's local
    replaced,       \* read_data's locals ...
    in_pin_saved,
    t, h,
    laststate, counter, i, j, data,
    result,         \* what read_data returned: [kind, v]
    frame,          \* the five bytes the sensor is sending in this decode
    wave,           \* what this decode has driven on the line: <<level, time, unit>>
    writes          \* assignments to DATA made by this run of the handler

vars == <<pcMain, mie, snapT, snapH, TIMER, DATA, DELAY, IN_PIN, OUT_PIN,
          TIMER_COUNTER, pending, pa3mode, pa3level, pcIrq, do_stuff, replaced,
          in_pin_saved, t, h, laststate, counter, i, j, data, result, frame,
          wave, writes>>

mainVars == <<pcMain, snapT, snapH>>
staticVars == <<TIMER, DATA, DELAY, IN_PIN, OUT_PIN, TIMER_COUNTER>>
pinVars == <<pa3mode, pa3level>>
loopVars == <<laststate, counter, i, j, data>>
readVars == <<replaced, in_pin_saved, t, h, laststate, counter, i, j, data>>

----------------------------------------------------------------------------
(* Program constants *)

UPDATE_INTERVAL == 3
count_ == 22
maxtimings_ == 85
SpinCap == 255
DataLen == 5
BitsWanted == 40
FirstDataTransition == 4
Unset == 1001
ValidBelow == 1000
ErrValue == 112
IdleHighMs == 250
StartLowMs == 20
ReleaseHighUs == 40

(* Bounds of the model *)

\* TIMER_COUNTER is a u32; the timer stops updating after MaxTicks ticks.
MaxTicks == 5

----------------------------------------------------------------------------
(* Values *)

None == "None"
Some == "Some"

Pair(a, b) == <<a, b>>
NoResult == [kind |-> "None", v |-> Pair(0, 0)]
Ok(v) == [kind |-> "Ok", v |-> v]
Err == [kind |-> "Err", v |-> Pair(0, 0)]

ZeroData == <<0, 0, 0, 0, 0>>

\* The pair TIMER1 stores when read_data fails.
FailureMarker == Pair(ErrValue, ErrValue)

\* Frames a sensor (or a corrupted line) sends in the model: checksum-valid
\* ones, mismatching ones, and ones whose four-byte sum exceeds 255.
Frames ==
    { <<65, 0, 25, 0, 90>>,        \* 25 C, 65 %
      <<65, 0, 25, 128, 218>>,     \* -25 C, 65 %
      <<65, 0, 25, 0, 91>>,        \* checksum mismatch
      <<65, 0, 25, 1, 90>>,        \* checksum mismatch, last data byte uncounted
      <<112, 0, 112, 0, 224>>,     \* 112 C, 112 %
      <<200, 100, 0, 100, 144>>,   \* sum 400, truncated 144: valid modulo 256
      <<200, 100, 0, 0, 45>> }     \* sum 300, truncated 44: mismatch

\* How long (in 1 us samples) the line can hold its level before it changes.
HoldVals == {0, 22, 23, 254, 255, 256}

\* Bit k (0 = first on the wire) of a frame, most significant bit first.
Pow2(n) == IF n = 0 THEN 1 ELSE IF n = 1 THEN 2 ELSE IF n = 2 THEN 4
           ELSE IF n = 3 THEN 8 ELSE IF n = 4 THEN 16 ELSE IF n = 5 THEN 32
           ELSE IF n = 6 THEN 64 ELSE 128
FrameBit(f, k) == (f[(k \div 8) + 1] \div Pow2(7 - (k % 8))) % 2

----------------------------------------------------------------------------
(* read_data: pure parts *)

\* The inner wait loop, lines 97-104: the line holds laststate for `hold`
\* consecutive samples; the counter is incremented once per such sample and
\* the loop is left at the first differing sample or when the counter
\* reaches the cap.
SpinCount(hold) == IF hold < SpinCap THEN hold ELSE SpinCap

\* Only the first two transitions are ignored.
CarriesBitFromThird(ii) == (ii >= FirstDataTransition - 2) /\ (ii % 2 = 0)

\* Does transition number ii carry a data bit?
CarriesBit(ii) == (ii >= FirstDataTransition) /\ (ii % 2 = 0)

\* A count equal to the threshold is taken as a 1.
ShiftInAtThreshold(byte, c) == ((byte * 2) % 256) + (IF c >= count_ THEN 1 ELSE 0)

\* u8 left shift by one, then or-in of the bit.
ShiftIn(byte, c) == ((byte * 2) % 256) + (IF c > count_ THEN 1 ELSE 0)

\* u8 additions of the checksum expression: do they overflow, and what they
\* wrap to when overflow checks are off.
SumOverflows(d) == d[1] + d[2] + d[3] + d[4] > 255
WrapSum(d) == (d[1] + d[2] + d[3] + d[4]) % 256

\* The sum leaves out the fourth byte.
ChecksumOfThree(d) == d[5] = (d[1] + d[2] + d[3]) % 256

ChecksumMatches(d) == d[5] = WrapSum(d) % 256

\* The bit count is not looked at.
EnoughBitsIgnored(jj) == jj >= 0

\* One bit less is enough.
EnoughBitsOffByOne(jj) == jj >= BitsWanted - 1

\* Line 128, first conjunct.
EnoughBits(jj) == jj >= BitsWanted

\* The second band divides by 10.
FractionTenths(b3) ==
    LET value == b3 % 128
    IN  IF value <= 9 THEN value \div 10
        ELSE IF value <= 100 THEN value \div 10
        ELSE value \div 1000

\* The three-band integer division on data[3] % 128.
Fraction(b3) ==
    LET value == b3 % 128
    IN  IF value <= 9 THEN value \div 10
        ELSE IF value <= 100 THEN value \div 100
        ELSE value \div 1000

\* The sign test is off by one.
TemperatureSignAbove128(d) ==
    LET m == d[3] + Fraction(d[4])
    IN  IF d[4] > 128 THEN -m ELSE m

\* Lines 132-146.
Temperature(d) ==
    LET m == d[3] + Fraction(d[4])
    IN  IF d[4] >= 128 THEN -m ELSE m

\* The humidity takes tenths from data[1].
HumidityWithTenths(d) == d[1] + (d[2] \div 10)

\* Line 149.
Humidity(d) == d[1]

----------------------------------------------------------------------------
(* Initial state: the statics as declared, before main has run *)

LocalsInit ==
    /\ do_stuff = FALSE
    /\ replaced = FALSE
    /\ in_pin_saved = FALSE
    /\ t = Unset
    /\ h = Unset
    /\ laststate = TRUE
    /\ counter = 0
    /\ i = 0
    /\ j = 0
    /\ data = ZeroData
    /\ result = NoResult
    /\ frame = ZeroData
    /\ wave = <<>>
    /\ writes = 0

Init ==
    /\ pcMain = "start"
    /\ mie = FALSE
    /\ snapT = 0
    /\ snapH = 0
    /\ TIMER = None
    /\ DATA = [some |-> TRUE, v |-> Pair(0, 0)]
    /\ DELAY = None
    /\ IN_PIN = None
    /\ OUT_PIN = None
    /\ TIMER_COUNTER = 0
    /\ pending = FALSE
    /\ pa3mode = "floating"
    /\ pa3level = "low"
    /\ pcIrq = "idle"
    /\ LocalsInit

----------------------------------------------------------------------------
(* main *)

\* The main program runs only while no handler is active (and never again
\* once a panic in the handler has halted the hart).
MainRuns == pcIrq = "idle"

\* Lines 243-258: the pins and the delay are stored in the statics.
MainStorePins ==
    /\ MainRuns
    /\ pcMain = "start"
    /\ IN_PIN' = Some
    /\ OUT_PIN' = Some
    /\ DELAY' = Some
    /\ pa3mode' = "output"
    /\ pcMain' = "timer"
    /\ UNCHANGED <<wave, writes, mie, snapT, snapH, TIMER, DATA, TIMER_COUNTER, pending,
                   pa3level, pcIrq, do_stuff, readVars, result, frame>>

\* Lines 265-272: the 1 Hz timer is started, listening for Update.
MainStoreTimer ==
    /\ MainRuns
    /\ pcMain = "timer"
    /\ TIMER' = Some
    /\ pcMain' = "enable"
    /\ UNCHANGED <<wave, writes, mie, snapT, snapH, DATA, DELAY, IN_PIN, OUT_PIN,
                   TIMER_COUNTER, pending, pinVars, pcIrq, do_stuff, readVars,
                   result, frame>>

\* Lines 275-284: the interrupt is unmasked and interrupts are enabled.
MainEnable ==
    /\ MainRuns
    /\ pcMain = "enable"
    /\ mie' = TRUE
    /\ pcMain' = "loop"
    /\ UNCHANGED <<wave, writes, snapT, snapH, staticVars, pending, pinVars, pcIrq,
                   do_stuff, readVars, result, frame>>

\* The critical section is entered without masking interrupts.
MainEnterUnmasked ==
    /\ MainRuns
    /\ pcMain = "loop"
    /\ pcMain' = IF DATA.some THEN "read_t" ELSE "exit_cs"
    /\ UNCHANGED <<wave, writes, mie, snapT, snapH, staticVars, pending, pinVars, pcIrq,
                   do_stuff, readVars, result, frame>>

\* Lines 303-304: free() masks interrupts; DATA is borrowed.
MainEnterCS ==
    /\ MainRuns
    /\ pcMain = "loop"
    /\ mie' = FALSE
    /\ pcMain' = IF DATA.some THEN "read_t" ELSE "exit_cs"
    /\ UNCHANGED <<wave, writes, snapT, snapH, staticVars, pending, pinVars, pcIrq,
                   do_stuff, readVars, result, frame>>

\* Lines 305-311: data.0 is read and drawn.
MainReadT ==
    /\ MainRuns
    /\ pcMain = "read_t"
    /\ snapT' = DATA.v[1]
    /\ pcMain' = "read_h"
    /\ UNCHANGED <<wave, writes, mie, snapH, staticVars, pending, pinVars, pcIrq, do_stuff,
                   readVars, result, frame>>

\* The main loop takes the reading out of DATA once it has drawn it.
MainReadHTakes ==
    /\ MainRuns
    /\ pcMain = "read_h"
    /\ snapH' = DATA.v[2]
    /\ DATA' = [DATA EXCEPT !.some = FALSE]
    /\ pcMain' = "exit_cs"
    /\ UNCHANGED <<wave, writes, mie, snapT, TIMER, DELAY, IN_PIN, OUT_PIN,
                   TIMER_COUNTER, pending, pinVars, pcIrq, do_stuff, readVars,
                   result, frame>>

\* Lines 313-317: data.1 is read and drawn.
MainReadH ==
    /\ MainRuns
    /\ pcMain = "read_h"
    /\ snapH' = DATA.v[2]
    /\ pcMain' = "exit_cs"
    /\ UNCHANGED <<wave, writes, mie, snapT, staticVars, pending, pinVars, pcIrq, do_stuff,
                   readVars, result, frame>>

\* Line 320: free() returns and restores MIE; the texts go out of scope.
MainExitCS ==
    /\ MainRuns
    /\ pcMain = "exit_cs"
    /\ mie' = TRUE
    /\ snapT' = 0
    /\ snapH' = 0
    /\ pcMain' = "sleep"
    /\ UNCHANGED <<wave, writes, staticVars, pending, pinVars, pcIrq, do_stuff, readVars,
                   result, frame>>

\* Line 344: wfi; the hart sleeps until an interrupt is taken.
MainWfi ==
    /\ MainRuns
    /\ pcMain = "sleep"
    /\ pcMain' = "wfi"
    /\ UNCHANGED <<wave, writes, mie, snapT, snapH, staticVars, pending, pinVars, pcIrq,
                   do_stuff, readVars, result, frame>>

----------------------------------------------------------------------------
(* The timer peripheral *)

\* Line 266: once started the 1 Hz timer raises its update flag.  A handler
\* run lasts under 0.3 s, so the flag is not raised again while one runs.
TimerUpdate ==
    /\ TIMER = Some
    /\ pcIrq = "idle"
    /\ ~pending
    /\ TIMER_COUNTER < MaxTicks
    /\ pending' = TRUE
    /\ UNCHANGED <<wave, writes, mainVars, mie, staticVars, pinVars, pcIrq, do_stuff,
                   readVars, result, frame>>

----------------------------------------------------------------------------
(* TIMER1 and read_data *)

ResetLocals ==
    /\ do_stuff' = FALSE
    /\ replaced' = FALSE
    /\ in_pin_saved' = FALSE
    /\ t' = Unset
    /\ h' = Unset
    /\ laststate' = TRUE
    /\ counter' = 0
    /\ i' = 0
    /\ j' = 0
    /\ data' = ZeroData
    /\ result' = NoResult
    /\ frame' = ZeroData
    /\ wave' = <<>>
    /\ writes' = 0

\* The decode is scheduled when the counter is a multiple of the interval.
TIMER1EntryPhaseZero ==
    /\ pcIrq = "idle"
    /\ pending
    /\ mie
    /\ mie' = FALSE
    /\ pcMain' = IF pcMain = "wfi" THEN "loop" ELSE pcMain
    /\ do_stuff' = (TIMER_COUNTER % UPDATE_INTERVAL = 0)
    /\ TIMER_COUNTER' = TIMER_COUNTER + 1
    /\ pcIrq' = IF do_stuff' THEN "read_data" ELSE "ack"
    /\ UNCHANGED <<wave, writes, snapT, snapH, TIMER, DATA, DELAY, IN_PIN, OUT_PIN, pending,
                   pinVars, readVars, result, frame>>

\* Lines 183-190: the interrupt is taken (the hart clears MIE and leaves
\* wfi), the tick is counted and the decode is scheduled or not.
TIMER1Entry ==
    /\ pcIrq = "idle"
    /\ pending
    /\ mie
    /\ mie' = FALSE
    /\ pcMain' = IF pcMain = "wfi" THEN "loop" ELSE pcMain
    /\ do_stuff' = (TIMER_COUNTER % UPDATE_INTERVAL = 1)
    /\ TIMER_COUNTER' = TIMER_COUNTER + 1
    /\ pcIrq' = IF do_stuff' THEN "read_data" ELSE "ack"
    /\ UNCHANGED <<wave, writes, snapT, snapH, TIMER, DATA, DELAY, IN_PIN, OUT_PIN, pending,
                   pinVars, readVars, result, frame>>

\* Lines 56-79: the locals are set, the pin is taken out of OUT_PIN.
ReadDataBegin ==
    /\ pcIrq = "read_data"
    /\ in_pin_saved' = FALSE
    /\ t' = Unset
    /\ h' = Unset
    /\ laststate' = TRUE
    /\ counter' = 0
    /\ i' = 0
    /\ j' = 0
    /\ data' = ZeroData
    /\ IF IN_PIN = Some
       THEN /\ OUT_PIN' = None
            /\ replaced' = (OUT_PIN = Some /\ DELAY = Some)
       ELSE /\ OUT_PIN' = OUT_PIN
            /\ replaced' = FALSE
    /\ pcIrq' = IF replaced' THEN "drive_high" ELSE "restore"
    /\ UNCHANGED <<wave, writes, mainVars, mie, TIMER, DATA, DELAY, IN_PIN, TIMER_COUNTER,
                   pending, pinVars, do_stuff, result, frame>>

\* Lines 82-83: the line is driven high for 250 ms.
DriveHigh ==
    /\ pcIrq = "drive_high"
    /\ pa3level' = "high"
    /\ wave' = Append(wave, <<"high", IdleHighMs, "ms">>)
    /\ pcIrq' = "drive_low"
    /\ UNCHANGED <<writes, mainVars, mie, staticVars, pending, pa3mode, do_stuff,
                   readVars, result, frame>>

\* The start pulse is timed in microseconds.
DriveLowMicroseconds ==
    /\ pcIrq = "drive_low"
    /\ pa3level' = "low"
    /\ wave' = Append(wave, <<"low", StartLowMs, "us">>)
    /\ pcIrq' = "release"
    /\ UNCHANGED <<writes, mainVars, mie, staticVars, pending, pa3mode, do_stuff,
                   readVars, result, frame>>

\* Lines 85-86: the start pulse, low for 20 ms.
DriveLow ==
    /\ pcIrq = "drive_low"
    /\ pa3level' = "low"
    /\ wave' = Append(wave, <<"low", StartLowMs, "ms">>)
    /\ pcIrq' = "release"
    /\ UNCHANGED <<writes, mainVars, mie, staticVars, pending, pa3mode, do_stuff,
                   readVars, result, frame>>

\* Lines 88-89: the line is released high for 40 us.
Release ==
    /\ pcIrq = "release"
    /\ pa3level' = "high"
    /\ wave' = Append(wave, <<"high", ReleaseHighUs, "us">>)
    /\ pcIrq' = "to_input"
    /\ UNCHANGED <<writes, mainVars, mie, staticVars, pending, pa3mode, do_stuff,
                   readVars, result, frame>>

\* Line 91: the pin becomes a pull-up input; the sensor starts to answer
\* with some frame.
ToInput ==
    /\ pcIrq = "to_input"
    /\ pa3mode' = "input"
    /\ frame' \in Frames
    /\ pcIrq' = "loop"
    /\ UNCHANGED <<wave, writes, mainVars, mie, staticVars, pending, pa3level, do_stuff,
                   readVars, result>>

\* The line's behaviour during transition ii: it holds its level for `hold`
\* samples; a data transition that ends in time is long or short according
\* to the bit of the frame it carries.
LineAllows(ii, hold) ==
    LET k == (ii - FirstDataTransition) \div 2
    IN  (ii >= FirstDataTransition /\ ii % 2 = 0 /\ k < BitsWanted /\ hold < SpinCap)
            => ((hold > count_) <=> (FrameBit(frame, k) = 1))

\* A wait that reaches the cap only skips its own transition.
AwaitTransitionSkipsOnTimeout ==
    /\ pcIrq = "loop"
    /\ i < maxtimings_
    /\ \E hold \in HoldVals :
         /\ LineAllows(i, hold)
         /\ LET c == SpinCount(hold)
                index == j \div 8
            IN  /\ counter' = c
                /\ laststate' = IF c = SpinCap THEN laststate ELSE ~laststate
                /\ IF c = SpinCap
                   THEN /\ i' = i + 1
                        /\ pcIrq' = IF i' < maxtimings_ THEN "loop" ELSE "captured"
                        /\ UNCHANGED <<j, data>>
                   ELSE IF CarriesBit(i)
                   THEN IF index >= DataLen
                        THEN /\ pcIrq' = "panic"
                             /\ UNCHANGED <<i, j, data>>
                        ELSE /\ data' = [data EXCEPT ![index + 1] = ShiftIn(@, c)]
                             /\ j' = j + 1
                             /\ i' = i + 1
                             /\ pcIrq' = IF i' < maxtimings_ THEN "loop" ELSE "captured"
                   ELSE /\ i' = i + 1
                        /\ pcIrq' = IF i' < maxtimings_ THEN "loop" ELSE "captured"
                        /\ UNCHANGED <<j, data>>
    /\ UNCHANGED <<wave, writes, mainVars, mie, staticVars, pending, pinVars, do_stuff,
                   replaced, in_pin_saved, t, h, result, frame>>

\* Lines 96-123: one iteration of the capture loop.
AwaitTransition ==
    /\ pcIrq = "loop"
    /\ i < maxtimings_
    /\ \E hold \in HoldVals :
         /\ LineAllows(i, hold)
         /\ LET c == SpinCount(hold)
                index == j \div 8
            IN  /\ counter' = c
                /\ laststate' = IF c = SpinCap THEN laststate ELSE ~laststate
                /\ IF c = SpinCap
                   THEN /\ pcIrq' = "captured"
                        /\ UNCHANGED <<i, j, data>>
                   ELSE IF CarriesBit(i)
                   THEN IF index >= DataLen
                        THEN /\ pcIrq' = "panic"
                             /\ UNCHANGED <<i, j, data>>
                        ELSE /\ data' = [data EXCEPT ![index + 1] = ShiftIn(@, c)]
                             /\ j' = j + 1
                             /\ i' = i + 1
                             /\ pcIrq' = IF i' < maxtimings_ THEN "loop" ELSE "captured"
                   ELSE /\ i' = i + 1
                        /\ pcIrq' = IF i' < maxtimings_ THEN "loop" ELSE "captured"
                        /\ UNCHANGED <<j, data>>
    /\ UNCHANGED <<wave, writes, mainVars, mie, staticVars, pending, pinVars, do_stuff,
                   replaced, in_pin_saved, t, h, result, frame>>

\* Lines 124-155: the pin is saved, the capture is validated and converted.
\* The u8 sum traps when the build checks overflow and wraps when it does not.
ValidateConvert ==
    /\ pcIrq = "captured"
    /\ in_pin_saved' = TRUE
    /\ \E checked \in (IF EnoughBits(j) /\ SumOverflows(data) THEN BOOLEAN ELSE {FALSE}) :
         IF checked
         THEN /\ pcIrq' = "panic"
              /\ UNCHANGED <<t, h>>
         ELSE /\ pcIrq' = "restore"
              /\ IF EnoughBits(j) /\ ChecksumMatches(data)
                 THEN /\ t' = Temperature(data)
                      /\ h' = Humidity(data)
                 ELSE UNCHANGED <<t, h>>
    /\ UNCHANGED <<wave, writes, mainVars, mie, staticVars, pending, pinVars, do_stuff,
                   replaced, loopVars, result, frame>>

\* The pin is not put back.
RestoreSkipped ==
    /\ pcIrq = "restore"
    /\ pcIrq' = "ret"
    /\ UNCHANGED <<wave, writes, mainVars, mie, staticVars, pending, pinVars, do_stuff,
                   readVars, result, frame>>

\* Lines 162-166: the pin goes back to OUT_PIN as a push-pull output.
RestorePin ==
    /\ pcIrq = "restore"
    /\ IF replaced
       THEN /\ OUT_PIN' = Some
            /\ pa3mode' = "output"
       ELSE UNCHANGED <<OUT_PIN, pa3mode>>
    /\ pcIrq' = "ret"
    /\ UNCHANGED <<wave, writes, mainVars, mie, TIMER, DATA, DELAY, IN_PIN, TIMER_COUNTER,
                   pending, pa3level, do_stuff, readVars, result, frame>>

\* Lines 169-176: Ok when both values were set, Err otherwise.
Return ==
    /\ pcIrq = "ret"
    /\ result' = IF t < ValidBelow /\ h < ValidBelow THEN Ok(Pair(t, h)) ELSE Err
    /\ pcIrq' = "store"
    /\ UNCHANGED <<wave, writes, mainVars, mie, staticVars, pending, pinVars, do_stuff,
                   readVars, frame>>

\* A failed decode leaves DATA as it was.
StoreKeepsOnErr ==
    /\ pcIrq = "store"
    /\ DATA' = IF DATA.some /\ result.kind = "Ok"
               THEN [DATA EXCEPT !.v = result.v]
               ELSE DATA
    /\ writes' = IF DATA.some /\ result.kind = "Ok" THEN writes + 1 ELSE writes
    /\ pcIrq' = "ack"
    /\ UNCHANGED <<wave, mainVars, mie, TIMER, DELAY, IN_PIN, OUT_PIN, TIMER_COUNTER,
                   pending, pinVars, do_stuff, readVars, result, frame>>

\* Lines 191-207: the reading, or the failure marker, is stored in DATA.
Store ==
    /\ pcIrq = "store"
    /\ DATA' = IF DATA.some
               THEN [DATA EXCEPT !.v = IF result.kind = "Ok" THEN result.v
                                       ELSE FailureMarker]
               ELSE DATA
    /\ writes' = IF DATA.some THEN writes + 1 ELSE writes
    /\ pcIrq' = "ack"
    /\ UNCHANGED <<wave, mainVars, mie, TIMER, DELAY, IN_PIN, OUT_PIN, TIMER_COUNTER,
                   pending, pinVars, do_stuff, readVars, result, frame>>

\* The handler returns without clearing the update flag.
AckLeavesFlag ==
    /\ pcIrq = "ack"
    /\ mie' = TRUE
    /\ pcIrq' = "idle"
    /\ ResetLocals
    /\ UNCHANGED <<mainVars, staticVars, pinVars, pending>>

\* Lines 220-225: the update flag is cleared and the handler returns (mret
\* sets MIE again).
Ack ==
    /\ pcIrq = "ack"
    /\ pending' = IF TIMER = Some THEN FALSE ELSE pending
    /\ mie' = TRUE
    /\ pcIrq' = "idle"
    /\ ResetLocals
    /\ UNCHANGED <<mainVars, staticVars, pinVars>>

----------------------------------------------------------------------------
(* The program *)

Next ==
    \/ MainStorePins
    \/ MainStoreTimer
    \/ MainEnable
    \/ MainEnterCS
    \/ MainReadT
    \/ MainReadH
    \/ MainExitCS
    \/ MainWfi
    \/ TimerUpdate
    \/ TIMER1Entry
    \/ ReadDataBegin
    \/ DriveHigh
    \/ DriveLow
    \/ Release
    \/ ToInput
    \/ AwaitTransition
    \/ ValidateConvert
    \/ RestorePin
    \/ Return
    \/ Store
    \/ Ack

Spec == Init /\ [][Next]_vars

----------------------------------------------------------------------------
(* Validation and conversion over all values of data[3]: the handler at the *)
(* end of a capture that packed 40 bits and then timed out on the last      *)
(* transition, or that timed out waiting for the 40th bit, for frames with  *)
(* right and with wrong checksums.                                          *)

ConvFrames ==
    { <<b0, b1, b2, b3, (b0 + b1 + b2 + b3 + off) % 256>> :
        b0 \in {0, 65, 112, 255}, b1 \in {0, 30}, b2 \in {0, 25, 112, 255},
        b3 \in 0..255, off \in {0, 1} }

\* The data array when the wait for the last bit timed out: the fifth byte
\* holds seven bits.
PartialCapture(d) == [d EXCEPT ![5] = d[5] \div 2]

InitConv ==
    /\ pcMain = "loop"
    /\ mie = FALSE
    /\ snapT = 0
    /\ snapH = 0
    /\ TIMER = Some
    /\ DATA = [some |-> TRUE, v |-> Pair(0, 0)]
    /\ DELAY = Some
    /\ IN_PIN = Some
    /\ OUT_PIN = None
    /\ TIMER_COUNTER = 2
    /\ pending = TRUE
    /\ pa3mode = "input"
    /\ pa3level = "high"
    /\ pcIrq = "captured"
    /\ do_stuff = TRUE
    /\ replaced = TRUE
    /\ in_pin_saved = FALSE
    /\ t = Unset
    /\ h = Unset
    /\ laststate = TRUE
    /\ counter = SpinCap
    /\ result = NoResult
    /\ wave = << <<"high", IdleHighMs, "ms">>, <<"low", StartLowMs, "ms">>,
                 <<"high", ReleaseHighUs, "us">> >>
    /\ writes = 0
    /\ \E d \in ConvFrames : \E full \in BOOLEAN :
         /\ frame = d
         /\ data = IF full THEN d ELSE PartialCapture(d)
         /\ j = IF full THEN BitsWanted ELSE BitsWanted - 1
         /\ i = IF full THEN maxtimings_ - 1 ELSE FirstDataTransition + 2 * (BitsWanted - 1)

NextConv ==
    \/ ValidateConvert
    \/ RestorePin
    \/ Return
    \/ Store
    \/ Ack

SpecConv == InitConv /\ [][NextConv]_vars

----------------------------------------------------------------------------
(* Properties *)

Abs(x) == IF x < 0 THEN -x ELSE x

\* read_data has returned and TIMER1 has not yet looked at the result.
Returned == pcIrq = "store"

\* The capture loop was left because a wait reached the cap.
TimedOut == counter = SpinCap

\* The validation accepted the capture and the conversion has run.
Accepted == pcIrq \in {"restore", "ret", "store", "ack"} /\ t # Unset

\* The transition that carries the last of the 40 bits.
LastBitTransition == FirstDataTransition + 2 * (BitsWanted - 1)

ByteSum(d) == (d[1] + d[2] + d[3] + d[4]) % 256

\* C1 as claimed: whenever a wait reached the cap of 255, at whatever
\* transition index, read_data returns with fewer than 40 bits and Err.
C1_TimeoutAlwaysFails ==
    (Returned /\ TimedOut) => (j < BitsWanted /\ result.kind = "Err")

\* C1 amended: a wait that reaches the cap at a transition index of at most
\* 82 leaves fewer than 40 bits and read_data returns Err; a wait that
\* reaches it at index 83 or 84 leaves exactly 40 bits.
C1_TimeoutBeforeLastBitFails ==
    (Returned /\ TimedOut) =>
        /\ (i <= LastBitTransition) => (j < BitsWanted /\ result.kind = "Err")
        /\ (i > LastBitTransition) => (j = BitsWanted)

C1_Witness ==
    /\ Returned /\ TimedOut
    /\ i = LastBitTransition
    /\ j = BitsWanted - 1
    /\ result.kind = "Err"

\* C2: whenever read_data returns with a captured data array whose fifth
\* byte differs from the sum of the first four modulo 256, it returns Err,
\* never Ok, whatever the bit count.
C2_ChecksumRejection ==
    (Returned /\ data[5] # ByteSum(data)) => result.kind = "Err"

C2_Witness ==
    /\ Returned
    /\ j = BitsWanted
    /\ data[5] # ByteSum(data)
    /\ data = frame
    /\ result.kind = "Err"

\* C3: from the return of read_data to the end of the handler, OUT_PIN holds
\* the pin and the pin is a push-pull output; every decode starts with the
\* pin present in OUT_PIN.
C3_PinRestored ==
    /\ (pcIrq \in {"store", "ack"} /\ do_stuff) =>
            (OUT_PIN = Some /\ pa3mode = "output")
    /\ (pcIrq = "read_data") => (OUT_PIN = Some /\ pa3mode = "output")

C3_Witness ==
    /\ Returned
    /\ TimedOut
    /\ j > 0 /\ j < BitsWanted
    /\ result.kind = "Err"
    /\ OUT_PIN = Some
    /\ pa3mode = "output"

\* C4: no execution reaches a panic (an out-of-range index into data, or an
\* overflow trap in the checksum sum).
C4_NoPanic == pcIrq # "panic"

\* C5 as claimed: for every data[3], the fractional term added to an accepted
\* frame's temperature is 0, so the magnitude equals data[2].
C5_FractionIsZero ==
    Accepted => (Abs(t) - data[3] = 0)

\* C5 amended: the fractional term is 0 for every data[3] except those with
\* data[3] mod 128 = 100 (100 and 228), where it is 1.
C5_FractionZeroExceptAt100 ==
    Accepted => (Abs(t) - data[3] = IF data[4] % 128 = 100 THEN 1 ELSE 0)

C5_Witness ==
    /\ Accepted
    /\ data[4] = 228
    /\ data[3] = 25
    /\ t = -26

\* C6: for an accepted frame the temperature is <= 0 when data[3] >= 128 and
\* >= 0 when data[3] < 128, and its magnitude is that of the same frame with
\* the high bit of data[3] flipped.
C6_Sign ==
    Accepted =>
        /\ (data[4] >= 128) => (t <= 0)
        /\ (data[4] < 128) => (t >= 0)
        /\ Abs(t) = Abs(Temperature([data EXCEPT ![4] = (@ + 128) % 256]))

C6_Witness ==
    /\ Accepted
    /\ data[4] = 128
    /\ data[3] = 25
    /\ t = -25

\* The reference conversion: data[2] plus the fractional term, negated when
\* data[3] >= 128, and data[0] as the humidity.
RefReading(d) ==
    LET m == d[3] + (IF d[4] % 128 = 100 THEN 1 ELSE 0)
    IN  Pair(IF d[4] >= 128 THEN -m ELSE m, d[1])

\* C7: read_data returns, for every accepted frame, Ok with the reference
\* conversion of the frame (humidity data[0], whatever data[1] is);
\* [65,0,25,0,90] gives (25, 65) and [65,0,25,128,218] gives (-25, 65).
C7_Conversion ==
    (Returned /\ EnoughBits(j) /\ data[5] = ByteSum(data)) =>
        /\ result = Ok(RefReading(data))
        /\ (data = <<65, 0, 25, 0, 90>>) => (result = Ok(Pair(25, 65)))
        /\ (data = <<65, 0, 25, 128, 218>>) => (result = Ok(Pair(-25, 65)))

C7_Witness ==
    /\ Returned
    /\ data = <<65, 30, 25, 128, 248>>
    /\ result = Ok(Pair(-25, 65))

\* C8: no pair that read_data returns as Ok equals the pair TIMER1 stores
\* on failure.
C8_MarkerDistinct ==
    (Returned /\ result.kind = "Ok") => (result.v # FailureMarker)

\* C9: DATA is always Some, and when TIMER1 has handled the result of a
\* scheduled decode DATA holds the reading if read_data returned Ok and the
\* failure marker if it returned Err.
C9_FailureConverted ==
    /\ DATA.some
    /\ (pcIrq = "ack" /\ do_stuff) =>
            /\ result.kind \in {"Ok", "Err"}
            /\ DATA.v = IF result.kind = "Ok" THEN result.v ELSE FailureMarker

C9_Witness ==
    /\ pcIrq = "ack"
    /\ do_stuff
    /\ TIMER_COUNTER = 5
    /\ result.kind = "Err"
    /\ DATA.v = FailureMarker

\* C10: the pair the main loop has read inside its critical section is the
\* pair DATA holds, and no handler runs while the main loop is inside it.
C10_AtomicPair ==
    /\ (pcMain = "read_h") => (snapT = DATA.v[1] /\ pcIrq = "idle")
    /\ (pcMain = "exit_cs") => (Pair(snapT, snapH) = DATA.v /\ pcIrq = "idle")

C10_Witness ==
    /\ pcMain = "exit_cs"
    /\ pending
    /\ DATA.v = Pair(-25, 65)
    /\ Pair(snapT, snapH) = DATA.v


\* C11: when the very first awaited transition (i = 0) reaches the cap,
\* read_data has packed no bit (j = 0, data all zero), returns Err, and
\* OUT_PIN holds the pin as a push-pull output.
C11_FirstTransitionTimeout ==
    (Returned /\ TimedOut /\ i = 0) =>
        /\ j = 0
        /\ data = ZeroData
        /\ result.kind = "Err"
        /\ OUT_PIN = Some
        /\ pa3mode = "output"

C11_Witness ==
    /\ Returned
    /\ TimedOut
    /\ i = 0
    /\ j = 0
    /\ result.kind = "Err"
    /\ pa3mode = "output"


\* C12: every capture of 40 bits whose fifth byte equals the sum of the other
\* four modulo 256 is accepted, also when the untruncated sum exceeds 255:
\* once the validation has run, the values are set and read_data returns Ok.
C12_TruncatedSumAccepted ==
    (in_pin_saved /\ j >= BitsWanted /\ data[5] = ByteSum(data)) =>
        /\ pcIrq # "panic"
        /\ t = Temperature(data)
        /\ h = Humidity(data)
        /\ Returned => result.kind = "Ok"


\* The number of bit-carrying transitions (even, from the fifth on) among
\* the transitions 0 .. ii-1.
BitsBefore(ii) ==
    IF ii <= FirstDataTransition THEN 0 ELSE (ii - FirstDataTransition + 1) \div 2

\* What the data array holds after jj bits of frame f were packed in capture
\* order, most significant bit first: the complete bytes, then the leading
\* bits of the byte in progress, then zeros.
PackedPrefix(f, jj) ==
    [b \in 1..5 |->
        IF 8 * b <= jj THEN f[b]
        ELSE IF 8 * (b - 1) < jj THEN f[b] \div (2 ^ (8 * b - jj))
        ELSE 0]

C13_Packed ==
    /\ j = BitsBefore(i)
    /\ (pcIrq \in {"loop", "captured", "panic"}) => (data = PackedPrefix(frame, j))
    /\ \A k \in 0..(BitsWanted - 1) :
          (pcIrq \in {"loop", "captured"} /\ 8 * ((k \div 8) + 1) <= j) =>
              (data[(k \div 8) + 1] \div (2 ^ (7 - (k % 8)))) % 2 = FrameBit(frame, k)

C13_Step ==
    (j' # j /\ pcIrq = "loop") =>
        /\ i >= 4 /\ i % 2 = 0
        /\ i = 4 + 2 * j
        /\ j' = j + 1
        /\ data' = [data EXCEPT ![(j \div 8) + 1] =
                        ((@ * 2) % 256) + (IF counter' > 22 THEN 1 ELSE 0)]

\* C13: transitions 0..3 and the odd ones pack no bit; the k-th bit comes
\* from transition 4 + 2k, is 1 exactly when that transition's count is
\* above 22, and ends in byte k div 8 at bit position 7 - (k mod 8).
C13_BitPacking == [] C13_Packed /\ [][C13_Step]_vars

C13_Witness ==
    /\ pcIrq = "captured"
    /\ j = BitsWanted
    /\ frame = <<65, 0, 25, 128, 218>>
    /\ data = frame


C14_Stopped ==
    TimedOut =>
        /\ pcIrq # "loop"
        /\ j = BitsBefore(i)

C14_Step ==
    (TimedOut /\ pcIrq' # "idle") => (i' = i /\ j' = j /\ data' = data /\ counter' = counter)

\* C14: once a wait has reached 255, no further transition is awaited and no
\* further bit is packed in that call; the bit count is the number of
\* bit-carrying transitions completed before the one that timed out.
C14_TimeoutStopsCapture == [] C14_Stopped /\ [][C14_Step]_vars

C14_Witness ==
    /\ Returned
    /\ TimedOut
    /\ i = 10
    /\ j = 3
    /\ data = <<2, 0, 0, 0, 0>>


StartSequence ==
    << <<"high", 250, "ms">>, <<"low", 20, "ms">>, <<"high", 40, "us">> >>

C15_Order ==
    /\ (pcIrq = "drive_high") => (wave = <<>> /\ pa3mode = "output")
    /\ (pcIrq = "drive_low") =>
            (wave = SubSeq(StartSequence, 1, 1) /\ pa3mode = "output" /\ pa3level = "high")
    /\ (pcIrq = "release") =>
            (wave = SubSeq(StartSequence, 1, 2) /\ pa3mode = "output" /\ pa3level = "low")
    /\ (pcIrq = "to_input") =>
            (wave = StartSequence /\ pa3mode = "output" /\ pa3level = "high")
    /\ (pcIrq \in {"loop", "captured"}) => (wave = StartSequence /\ pa3mode = "input")
    /\ (pa3mode = "input") => (Len(wave) = 3)

\* The line is driven only as an output, and sampled only as an input.
C15_Step ==
    /\ (pa3level' # pa3level \/ (wave' # wave /\ wave' # <<>>)) =>
            (pa3mode = "output" /\ pa3mode' = "output")
    /\ (counter' # counter \/ laststate' # laststate) =>
            (pcIrq' = "idle" \/ pa3mode = "input")

\* C15: in every decode the line is driven high for 250 ms, then low for
\* 20 ms, then high for 40 us, and only then made a pull-up input; it is
\* never sampled as an output and never driven as an input.
C15_StartSequence == [] C15_Order /\ [][C15_Step]_vars

C15_Witness ==
    /\ pcIrq = "loop"
    /\ i = 3
    /\ pa3mode = "input"
    /\ wave = StartSequence


\* The steps of a running handler.
HandlerStep ==
    \/ ReadDataBegin \/ DriveHigh \/ DriveLow \/ Release \/ ToInput
    \/ AwaitTransition \/ ValidateConvert \/ RestorePin \/ Return \/ Store \/ Ack

\* C16: a started decode awaits at most 85 transitions of at most 255
\* samples each and then finishes: a handler that has not returned can
\* always take its next step.
C16_DecodeTerminates ==
    /\ i + (IF TimedOut THEN 1 ELSE 0) <= maxtimings_
    /\ counter <= SpinCap
    /\ (pcIrq # "idle") => ENABLED HandlerStep


C17_Scheduled ==
    /\ (pcIrq # "idle") => (do_stuff <=> ((TIMER_COUNTER - 1) % 3 = 1))
    /\ (pcIrq \notin {"idle", "ack"}) => do_stuff

C17_Step ==
    /\ (TIMER_COUNTER' # TIMER_COUNTER) => (pcIrq = "idle" /\ pcIrq' # "idle")
    /\ (pcIrq = "idle" /\ pcIrq' # "idle") =>
            /\ TIMER_COUNTER' = TIMER_COUNTER + 1
            /\ pcIrq' = IF TIMER_COUNTER % 3 = 1 THEN "read_data" ELSE "ack"

\* C17: every tick increments TIMER_COUNTER by exactly one, and read_data is
\* invoked on exactly the ticks whose counter before the increment is
\* 1 modulo 3, so decodes are three ticks apart and no other tick decodes.
C17_Cadence == [] C17_Scheduled /\ [][C17_Step]_vars

C17_Witness ==
    /\ pcIrq = "read_data"
    /\ TIMER_COUNTER = 5
    /\ DATA.v # Pair(0, 0)


C18_Written ==
    /\ (TIMER_COUNTER <= 1) => (DATA = [some |-> TRUE, v |-> Pair(0, 0)])
    /\ (pcIrq = "ack") => (writes = IF do_stuff THEN 1 ELSE 0)
    /\ (pcIrq # "ack") => (writes = 0)

C18_Step ==
    (DATA' # DATA) =>
        /\ pcIrq = "store" /\ pcIrq' = "ack"
        /\ do_stuff
        /\ writes = 0 /\ writes' = 1
        /\ UNCHANGED <<pcMain, snapT, snapH>>

\* C18: DATA starts as (0.0, 0.0); a run of the handler that decodes assigns
\* it exactly once, and neither a tick without decode nor any step of the
\* main loop changes it.
C18_WriteDiscipline == [] C18_Written /\ [][C18_Step]_vars

C18_Witness ==
    /\ pcIrq = "ack"
    /\ do_stuff
    /\ writes = 1
    /\ TIMER_COUNTER = 5
    /\ result.kind = "Ok"


C19_FlagHeld ==
    /\ (pcIrq # "idle") => pending
    /\ (pcIrq = "ack" /\ do_stuff) => (result.kind # "None" /\ writes = 1)

C19_Step ==
    /\ (pending /\ ~pending') => (pcIrq = "ack" /\ pcIrq' = "idle")
    /\ (pcIrq # "idle" /\ pcIrq' = "idle") => (pcIrq = "ack" /\ pending /\ ~pending')

\* C19: the update flag stays pending through the whole handler and is
\* cleared exactly once, by the handler's last step, on ticks with and
\* without decode; on a decode tick that step comes after read_data has
\* returned and DATA has been written.
C19_Acknowledge == [] C19_FlagHeld /\ [][C19_Step]_vars

C19_Witness ==
    /\ pcIrq = "idle"
    /\ ~pending
    /\ TIMER_COUNTER = 2
    /\ DATA.v = FailureMarker


\* C20: read_data returns Ok exactly when at least 40 bits were packed and
\* the checksum matched; accepted values are within [-256, 256], so the
\* final test t < 1000 && h < 1000 never rejects them, and a call whose
\* validation failed leaves t and h at 1001 and returns Err.
C20_OkExactlyWhenValid ==
    /\ Returned =>
          /\ (result.kind = "Ok") <=> (j >= 40 /\ data[5] = ByteSum(data))
          /\ (result.kind = "Ok") => (result.v = Pair(t, h))
          /\ (result.kind = "Err") => (t = 1001 /\ h = 1001)
    /\ (pcIrq \in {"restore", "ret", "store"}) =>
          /\ (t = 1001) <=> (h = 1001)
          /\ (t # 1001) => (t >= -256 /\ t <= 256 /\ h >= 0 /\ h <= 255)
          /\ (t # 1001) <=> (j >= 40 /\ data[5] = ByteSum(data))

C20_Witness ==
    /\ Returned
    /\ result = Ok(Pair(256, 255))
    /\ data[4] = 100

====
